---- MODULE Spec2Model ----
(***************************************************************************)
(* The BlockNative gas oracle of ethers-middleware                         *)
(* (src/ethers-middleware/src/gas_oracle/blocknative.rs).                  *)
(*                                                                         *)
(* One oracle value (client, url, gas_category) serves calls to query,     *)
(* fetch and estimate_eip1559_fees.  A call is a future: it suspends at    *)
(* the two awaits of query (send, text) and runs the rest of its body      *)
(* without suspension.  U256 and f64 values are modelled bit-exactly on    *)
(* naturals held as little-endian sequences of 15-bit limbs.               *)
(***************************************************************************)
EXTENDS Integers, Sequences, FiniteSets, TLC

(***************************************************************************)
(* Bounds of the model.                                                    *)
(***************************************************************************)
MaxCalls == 2       \* calls that may be in flight on the one oracle
MaxCents == 120     \* two-decimal fee literals 0.01 .. MaxCents/100
MaxBlocks == 2      \* longest blockPrices array the network delivers

(***************************************************************************)
(* Natural numbers of any size: <<l1, l2, ...>> is l1 + l2*Base + ...      *)
(* with no leading (most significant) zero limb; <<>> is zero.             *)
(***************************************************************************)
Base == 2^15

RECURSIVE Trim(_)
Trim(s) ==
    IF s = <<>> THEN <<>>
    ELSE IF s[Len(s)] = 0 THEN Trim(SubSeq(s, 1, Len(s) - 1))
    ELSE s

RECURSIVE NatToBig(_)
NatToBig(n) ==
    IF n = 0 THEN <<>> ELSE <<n % Base>> \o NatToBig(n \div Base)

RECURSIVE MulCarry(_, _, _)
MulCarry(a, k, carry) ==
    IF a = <<>> THEN NatToBig(carry)
    ELSE LET t == a[1] * k + carry
         IN  <<t % Base>> \o MulCarry(Tail(a), k, t \div Base)

\* a * k for one limb k
BigMulSmall(a, k) == Trim(MulCarry(a, k, 0))

RECURSIVE AddCarry(_, _, _)
AddCarry(a, b, carry) ==
    IF a = <<>> /\ b = <<>> THEN NatToBig(carry)
    ELSE LET x == IF a = <<>> THEN 0 ELSE a[1]
             y == IF b = <<>> THEN 0 ELSE b[1]
             t == x + y + carry
         IN  <<t % Base>> \o
             AddCarry(IF a = <<>> THEN <<>> ELSE Tail(a),
                      IF b = <<>> THEN <<>> ELSE Tail(b), t \div Base)

BigAdd(a, b) == Trim(AddCarry(a, b, 0))

RECURSIVE BigMul(_, _)
BigMul(a, b) ==
    IF a = <<>> \/ b = <<>> THEN <<>>
    ELSE BigAdd(BigMulSmall(a, b[1]),
                LET hi == BigMul(a, Tail(b))
                IN  IF hi = <<>> THEN <<>> ELSE <<0>> \o hi)

RECURSIVE DivRem(_, _, _)
\* long division by one limb d, most significant limb first
DivRem(a, d, i) ==
    IF i = 0 THEN [q |-> <<>>, r |-> 0]
    ELSE LET hi == DivRem(a, d, i - 1)
             t  == hi.r * Base + a[Len(a) + 1 - i]
         IN  [q |-> <<t \div d>> \o hi.q, r |-> t % d]

BigDivSmall(a, d) ==
    LET qr == DivRem(a, d, Len(a)) IN [q |-> Trim(qr.q), r |-> qr.r]

RECURSIVE LimbBits(_)
LimbBits(n) == IF n = 0 THEN 0 ELSE 1 + LimbBits(n \div 2)

BigBitLen(a) ==
    IF a = <<>> THEN 0 ELSE (Len(a) - 1) * 15 + LimbBits(a[Len(a)])

RECURSIVE BigShl(_, _)
BigShl(a, s) ==
    IF a = <<>> THEN <<>>
    ELSE IF s >= 15 THEN <<0>> \o BigShl(a, s - 15)
    ELSE BigMulSmall(a, 2^s)

RECURSIVE BigShr(_, _)
BigShr(a, s) ==
    IF a = <<>> THEN <<>>
    ELSE IF s >= 15 THEN BigShr(Tail(a), s - 15)
    ELSE BigDivSmall(a, 2^s).q

\* bit i of a, bit 0 the least significant
BigBit(a, i) ==
    IF i \div 15 + 1 > Len(a) THEN 0
    ELSE (a[i \div 15 + 1] \div 2^(i % 15)) % 2

\* whether any of the k low bits of a is set
BigLowBitsSet(a, k) ==
    \/ \E j \in 1..(k \div 15) : j <= Len(a) /\ a[j] # 0
    \/ k \div 15 + 1 <= Len(a) /\ a[k \div 15 + 1] % 2^(k % 15) # 0

RECURSIVE Pow10(_)
Pow10(n) == IF n = 0 THEN 1 ELSE 10 * Pow10(n - 1)

RECURSIVE BigPow10(_)
BigPow10(n) == IF n = 0 THEN <<1>> ELSE BigMulSmall(BigPow10(n - 1), 10)

(***************************************************************************)
(* f64: [neg, m, e] is (-1)^neg * m * 2^e with m = <<>> (zero) or a        *)
(* 53-bit significand.  Arithmetic rounds to nearest, ties to even.        *)
(***************************************************************************)
F64Zero(neg) == [neg |-> neg, m |-> <<>>, e |-> 0]

\* drop the s low bits of n (s > 0), keeping the last dropped bit and whether
\* any lower bit was set
ShrSticky(n, sticky, s) ==
    [n      |-> BigShr(n, s),
     guard  |-> BigBit(n, s - 1) = 1,
     sticky |-> sticky \/ BigLowBitsSet(n, s - 1)]

\* the f64 nearest to (n + fraction) * 2^e, fraction in [0,1) and nonzero
\* iff sticky; n nonzero, and of at least 54 bits when sticky
RoundF64(neg, n, sticky, e) ==
    LET len == BigBitLen(n)
    IN  IF len <= 53
        THEN [neg |-> neg, m |-> BigShl(n, 53 - len), e |-> e - (53 - len)]
        ELSE LET s    == len - 53
                 t    == ShrSticky(n, sticky, s)
                 odd  == t.n[1] % 2 = 1
                 up   == t.guard /\ (t.sticky \/ odd)
                 m1   == IF up THEN BigAdd(t.n, <<1>>) ELSE t.n
             IN  IF BigBitLen(m1) = 54
                 THEN [neg |-> neg, m |-> BigShr(m1, 1), e |-> e + s + 1]
                 ELSE [neg |-> neg, m |-> m1, e |-> e + s]

(***************************************************************************)
(* A JSON number [neg, digits, scale] is the literal                       *)
(* (-1)^neg * digits * 10^(-scale).  The decoder gives the f64 nearest to  *)
(* it; scale is at most 4, so 10^scale is one limb.                        *)
(***************************************************************************)
ParseF64(lit) ==
    IF lit.digits = 0 THEN F64Zero(lit.neg)
    ELSE IF lit.scale <= 0
    THEN RoundF64(lit.neg,
                  BigMul(NatToBig(lit.digits), BigPow10(0 - lit.scale)),
                  FALSE, 0)
    ELSE LET qr == BigDivSmall(BigShl(NatToBig(lit.digits), 70),
                               Pow10(lit.scale))
         IN  RoundF64(lit.neg, qr.q, qr.r # 0, 0 - 70)

\* f * 100.0; 100.0 is 25 * 2^2
F64Mul100(f) ==
    IF f.m = <<>> THEN f
    ELSE RoundF64(f.neg, BigMulSmall(f.m, 25), FALSE, f.e + 2)

U64Max == <<Base - 1, Base - 1, Base - 1, Base - 1, 15>>

\* f as u64: truncates toward zero and saturates at 0 and u64::MAX
F64AsU64(f) ==
    IF f.neg \/ f.m = <<>> THEN <<>>
    ELSE IF f.e >= 0
    THEN IF f.e + 53 > 64 THEN U64Max ELSE BigShl(f.m, f.e)
    ELSE IF 0 - f.e >= 53 THEN <<>> ELSE BigShr(f.m, 0 - f.e)

(***************************************************************************)
(* U256                                                                    *)
(***************************************************************************)
GWEI_TO_WEI == 1000000000

U256From(n) == NatToBig(n)

IsU256(a) ==
    /\ BigBitLen(a) <= 256
    /\ \A k \in 1..Len(a) : a[k] \in 0..(Base - 1)
    /\ a = Trim(a)

\* U256 * U256; the product of a u64 and 10^9 is below 2^256
U256Mul(a, b) == BigMul(a, b)

\* U256 / U256 for a divisor of one limb
U256Div(a, b) == BigDivSmall(a, b[1]).q

\* lines 133-135 and 136-138: gwei as f64 to wei as U256
GweiToWei(gwei) ==
    U256Div(U256Mul(F64AsU64(F64Mul100(gwei)), U256From(GWEI_TO_WEI)),
            U256From(100))

(***************************************************************************)
(* The oracle and its calls                                                *)
(***************************************************************************)
VARIABLES
    client,         \* the HTTP client: its default headers
    url,            \* the endpoint
    gas_category,   \* the configured GasCategory
    calls           \* calls[i]: the future of the i-th caller

vars == <<client, url, gas_category, calls>>

CallIds == 1..MaxCalls

GasCategory == {"SafeLow", "Standard", "Fast", "Fastest"}

BLOCKNATIVE_GAS_PRICE_ENDPOINT ==
    "https://api.blocknative.com/gasprices/blockprices"

\* a table with the percentiles of Fast and Fastest exchanged
gas_category_to_confidence_exchanged(category) ==
    CASE category = "SafeLow"  -> 80
      [] category = "Standard" -> 90
      [] category = "Fast"     -> 99
      [] category = "Fastest"  -> 95

gas_category_to_confidence(category) ==
    CASE category = "SafeLow"  -> 80
      [] category = "Standard" -> 90
      [] category = "Fast"     -> 95
      [] category = "Fastest"  -> 99

(***************************************************************************)
(* Response bodies.  A body is text that is not JSON, JSON that lacks the  *)
(* required blockPrices array, or a quote: blockPrices with, per block,    *)
(* blockNumber, estimatedTransactionCount, baseFeePerGas and               *)
(* estimatedPrices, the numbers of type f64 held as JSON literals.  The    *)
(* optional system, network, unit and maxPrice are never read.             *)
(***************************************************************************)
Lit(neg, digits, scale) == [neg |-> neg, digits |-> digits, scale |-> scale]

Cents(c) == Lit(FALSE, c, 2)

NotJson == [kind |-> "not_json", blockPrices |-> <<>>]

NoBlockPrices == [kind |-> "schema_mismatch", blockPrices |-> <<>>]

Quote(blocks) == [kind |-> "quote", blockPrices |-> blocks]

NoBody == [kind |-> "none", blockPrices |-> <<>>]

JsonTier(confidence, price, prio, fee) ==
    [confidence |-> confidence, price |-> price,
     maxPriorityFeePerGas |-> prio, maxFeePerGas |-> fee]

JsonBlock(number, count, base, tiers) ==
    [blockNumber |-> number, estimatedTransactionCount |-> count,
     baseFeePerGas |-> base, estimatedPrices |-> tiers]

\* serde: EstimatedPrice
DeEstimatedPrice(t) ==
    [confidence |-> t.confidence, price |-> t.price,
     max_priority_fee_per_gas |-> ParseF64(t.maxPriorityFeePerGas),
     max_fee_per_gas |-> ParseF64(t.maxFeePerGas)]

\* serde: BlockPrice
DeBlockPrice(b) ==
    [block_number |-> b.blockNumber,
     estimated_transaction_count |-> b.estimatedTransactionCount,
     base_fee_per_gas |-> ParseF64(b.baseFeePerGas),
     estimated_prices |->
        [k \in 1..Len(b.estimatedPrices) |->
            DeEstimatedPrice(b.estimatedPrices[k])]]

\* serde: BlockNativeGasResponse
DeBlockNativeGasResponse(body) ==
    [block_prices |->
        [k \in 1..Len(body.blockPrices) |-> DeBlockPrice(body.blockPrices[k])]]

(***************************************************************************)
(* Outcomes of a call                                                      *)
(***************************************************************************)
Pending == [kind |-> "none", value |-> <<>>]

Ok(v) == [kind |-> "ok", value |-> v]

Err(variant, cause) ==
    [kind |-> "err", value |-> [error |-> variant, cause |-> cause]]

Panic(msg) == [kind |-> "panic", value |-> msg]

\* a query that returns the decode error without logging the response
QueryDecodeUnlogged(text) ==
    IF text.kind = "quote"
    THEN [result |-> Ok(DeBlockNativeGasResponse(text)), logged |-> <<>>]
    ELSE LET e == IF text.kind = "not_json" THEN "syntax" ELSE "data"
         IN  [result |-> Err("SerdeJsonError", e), logged |-> <<>>]

\* the match of query on the text of the response: the result, and what is
\* written to the error log
QueryDecode(text) ==
    IF text.kind = "quote"
    THEN [result |-> Ok(DeBlockNativeGasResponse(text)), logged |-> <<>>]
    ELSE LET e == IF text.kind = "not_json" THEN "syntax" ELSE "data"
         IN  [result |-> Err("SerdeJsonError", e),
              logged |-> <<[level |-> "error", e |-> e, resp |-> text]>>]

\* Iterator::find: the first tier of the given confidence, 0 when none
FindConfidence(estimated_prices, confidence) ==
    LET hits == {k \in 1..Len(estimated_prices) :
                    estimated_prices[k].confidence = confidence}
    IN  IF hits = {} THEN 0
        ELSE CHOOSE k \in hits : \A j \in hits : k <= j

\* an estimate whose base fee is the block's base_fee_per_gas
estimate_eip1559_fees_of_base_fee(res, category) ==
    LET confidence == gas_category_to_confidence(category)
    IN  IF res.block_prices = <<>> THEN Panic("unwrap on None")
        ELSE LET last == res.block_prices[Len(res.block_prices)]
                 k    == FindConfidence(last.estimated_prices, confidence)
             IN  IF k = 0 THEN Panic("unwrap on None")
                 ELSE Ok(<<GweiToWei(last.base_fee_per_gas),
                           GweiToWei(last.estimated_prices[k]
                                         .max_priority_fee_per_gas)>>)

\* an estimate that reads the first block instead of the last
estimate_eip1559_fees_of_first_block(res, category) ==
    LET confidence == gas_category_to_confidence(category)
    IN  IF res.block_prices = <<>> THEN Panic("unwrap on None")
        ELSE LET first == res.block_prices[1]
                 k     == FindConfidence(first.estimated_prices, confidence)
             IN  IF k = 0 THEN Panic("unwrap on None")
                 ELSE Ok(<<GweiToWei(first.estimated_prices[k].max_fee_per_gas),
                           GweiToWei(first.estimated_prices[k]
                                          .max_priority_fee_per_gas)>>)

\* estimate_eip1559_fees after query has returned Ok(res)
estimate_eip1559_fees(res, category) ==
    LET confidence == gas_category_to_confidence(category)
    IN  IF res.block_prices = <<>>
        THEN Panic("unwrap on None")
        ELSE LET last == res.block_prices[Len(res.block_prices)]
                 k    == FindConfidence(last.estimated_prices, confidence)
             IN  IF k = 0
                 THEN Panic("unwrap on None")
                 ELSE LET block_prices == last.estimated_prices[k]
                          base_fee == GweiToWei(block_prices.max_fee_per_gas)
                          prio_fee ==
                            GweiToWei(block_prices.max_priority_fee_per_gas)
                      IN  Ok(<<base_fee, prio_fee>>)

IdleCall ==
    [pc |-> "idle", op |-> "none", requests |-> <<>>, body |-> NoBody,
     category |-> "none", logged |-> <<>>, outcome |-> Pending]

Get == [method |-> "GET", url |-> url, authorization |-> client.authorization]

InFlight(i) == calls[i].pc \in {"send", "text"}

Init ==
    /\ client = [authorization |-> "api-key"]
    /\ url = BLOCKNATIVE_GAS_PRICE_ENDPOINT
    /\ gas_category = "Standard"
    /\ calls = [i \in CallIds |-> IdleCall]

\* BlockNative::category: consumes the oracle, so no call borrows it
Category(c) ==
    /\ \A i \in CallIds : ~InFlight(i)
    /\ gas_category' = c
    /\ UNCHANGED <<client, url, calls>>

\* fetch: todo!() on the first poll
Fetch(i) ==
    /\ calls[i].pc = "idle"
    /\ calls' = [calls EXCEPT ![i] =
            [IdleCall EXCEPT !.pc = "done", !.op = "fetch",
                             !.outcome = Panic("not yet implemented")]]
    /\ UNCHANGED <<client, url, gas_category>>

\* query, or estimate_eip1559_fees entering query: the GET is sent
Start(i, op) ==
    /\ calls[i].pc = "idle"
    /\ calls' = [calls EXCEPT ![i] =
            [IdleCall EXCEPT !.pc = "send", !.op = op, !.requests = <<Get>>]]
    /\ UNCHANGED <<client, url, gas_category>>

\* a send that is tried once more when it fails
SendFailsRetry(i) ==
    /\ calls[i].pc = "send"
    /\ calls' = [calls EXCEPT ![i] =
            IF Len(@.requests) < 2
            THEN [@ EXCEPT !.requests = Append(@, Get)]
            ELSE [@ EXCEPT !.pc = "done",
                           !.outcome = Err("Transport", "send")]]
    /\ UNCHANGED <<client, url, gas_category>>

\* send().await? is an error
SendFails(i) ==
    /\ calls[i].pc = "send"
    /\ calls' = [calls EXCEPT ![i].pc = "done",
                              ![i].outcome = Err("Transport", "send")]
    /\ UNCHANGED <<client, url, gas_category>>

\* send().await? is a response
SendOk(i) ==
    /\ calls[i].pc = "send"
    /\ calls' = [calls EXCEPT ![i].pc = "text"]
    /\ UNCHANGED <<client, url, gas_category>>

\* resp.text().await? is an error
TextFails(i) ==
    /\ calls[i].pc = "text"
    /\ calls' = [calls EXCEPT ![i].pc = "done",
                              ![i].outcome = Err("Transport", "text")]
    /\ UNCHANGED <<client, url, gas_category>>

\* the call once resp.text().await? is the body: the rest of query and of
\* its caller
Finish(call, text) ==
    LET q == QueryDecode(text)
    IN  IF call.op = "query" \/ q.result.kind = "err"
        THEN [call EXCEPT !.pc = "done", !.body = text, !.logged = q.logged,
                          !.outcome = q.result]
        ELSE [call EXCEPT !.pc = "done", !.body = text, !.logged = q.logged,
                          !.category = gas_category,
                          !.outcome = estimate_eip1559_fees(q.result.value,
                                                          gas_category)]

\* a body that lands in every call waiting for one
TextOkShared(i, text) ==
    /\ calls[i].pc = "text"
    /\ calls' = [j \in CallIds |->
                    IF calls[j].pc = "text" THEN Finish(calls[j], text)
                    ELSE calls[j]]
    /\ UNCHANGED <<client, url, gas_category>>

\* resp.text().await? is the body
TextOk(i, text) ==
    /\ calls[i].pc = "text"
    /\ calls' = [calls EXCEPT ![i] = Finish(calls[i], text)]
    /\ UNCHANGED <<client, url, gas_category>>

\* the caller takes the result (or the panic unwinds)
Return(i) ==
    /\ calls[i].pc = "done"
    /\ calls' = [calls EXCEPT ![i] = IdleCall]
    /\ UNCHANGED <<client, url, gas_category>>

(***************************************************************************)
(* What the network delivers                                               *)
(***************************************************************************)
Confidences == <<80, 90, 95, 99>>

\* the four standard tiers, of prices 10/20/30/40, with fees that differ
\* from tier to tier
FullTiers(c) ==
    [k \in 1..4 |->
        JsonTier(Confidences[k], 10 * k, Cents(c \div 2 + k),
                 Cents(c + (k - 1) * MaxCents))]

WBlock(c) == JsonBlock(1000 + c, 150, Cents(c + 7), FullTiers(c))

\* the tiers of WBlock(c) with other composite prices
RepricedBlock(c) ==
    JsonBlock(1000 + c, 150, Cents(c + 7),
              [k \in 1..4 |-> [FullTiers(c)[k] EXCEPT !.price = 50 * k]])

\* no tier of confidence 95
No95Block ==
    JsonBlock(2000, 90, Cents(2500),
              <<FullTiers(1234)[1], FullTiers(1234)[2], FullTiers(1234)[4]>>)

\* 12.34 and 1.15; 10000.00 and 0.00; 12.345 and -1.50; 1e18 and 2.5
OddBlock ==
    JsonBlock(3000, 10, Cents(999),
              <<JsonTier(80, 10, Cents(115), Cents(1234)),
                JsonTier(90, 20, Cents(0), Cents(1000000)),
                JsonTier(95, 30, Lit(TRUE, 150, 2), Lit(FALSE, 12345, 3)),
                JsonTier(99, 40, Lit(FALSE, 25, 1), Lit(FALSE, 1, 0 - 18))>>)

\* bodies delivered to the concurrent calls
NetBodies ==
    {NotJson, NoBlockPrices, Quote(<<>>), Quote(<<No95Block>>),
     Quote(<<WBlock(28), WBlock(29)>>)}

RECURSIVE SeqsUpTo(_, _)
\* the sequences over S of length 1..n
SeqsUpTo(S, n) ==
    IF n = 0 THEN {}
    ELSE {<<x>> : x \in S} \cup
         {Append(t, x) : t \in SeqsUpTo(S, n - 1), x \in S}

\* bodies delivered to the single call of SeqSpec
WideBodies ==
    {NotJson, NoBlockPrices, Quote(<<>>)} \cup
    {Quote(<<WBlock(c)>>) : c \in 1..MaxCents} \cup
    {Quote(bs) : bs \in SeqsUpTo({WBlock(28), WBlock(29), RepricedBlock(29),
                                  No95Block, OddBlock}, MaxBlocks)}

Next ==
    \/ \E c \in GasCategory : Category(c)
    \/ \E i \in CallIds : Fetch(i)
    \/ \E i \in CallIds, op \in {"query", "estimate"} : Start(i, op)
    \/ \E i \in CallIds : SendFails(i)
    \/ \E i \in CallIds : SendOk(i)
    \/ \E i \in CallIds : TextFails(i)
    \/ \E i \in CallIds, text \in NetBodies : TextOk(i, text)
    \/ \E i \in CallIds : Return(i)

\* any number of callers share the oracle
Spec == Init /\ [][Next]_vars

SeqNext ==
    \/ \E c \in GasCategory : Category(c)
    \/ Fetch(1)
    \/ \E op \in {"query", "estimate"} : Start(1, op)
    \/ SendFails(1)
    \/ SendOk(1)
    \/ TextFails(1)
    \/ \E text \in WideBodies : TextOk(1, text)
    \/ Return(1)

\* one caller, one call at a time, and a wide range of responses
SeqSpec == Init /\ [][SeqNext]_vars

(***************************************************************************)
(* Properties                                                              *)
(***************************************************************************)
Done(i) == calls[i].pc = "done"

\* the percentile table of the specification
Percentile ==
    [c \in GasCategory |->
        IF c = "SafeLow" THEN 80 ELSE IF c = "Standard" THEN 90
        ELSE IF c = "Fast" THEN 95 ELSE 99]

LastBlock(body) == body.blockPrices[Len(body.blockPrices)]

HasTier(block, category) ==
    \E k \in 1..Len(block.estimatedPrices) :
        block.estimatedPrices[k].confidence = Percentile[category]

\* the first tier of the block at the category's percentile
TierOf(block, category) ==
    LET ks == {k \in 1..Len(block.estimatedPrices) :
                  block.estimatedPrices[k].confidence = Percentile[category]}
    IN  block.estimatedPrices[CHOOSE k \in ks : \A j \in ks : k <= j]

\* trunc(v * 100) * 10^9 / 100, the division being exact: trunc(v * 100) * 10^7
WeiOf(lit) == BigMul(F64AsU64(F64Mul100(ParseF64(lit))), NatToBig(10000000))

FeesOf(tier) == <<WeiOf(tier.maxFeePerGas), WeiOf(tier.maxPriorityFeePerGas)>>

\* a successful estimate_eip1559_fees
EstimateOk(i) ==
    Done(i) /\ calls[i].op = "estimate" /\ calls[i].outcome.kind = "ok"

\* what a call makes of the response delivered to it
OutcomeOf(op, category, body) ==
    IF op = "query" \/ body.kind # "quote" THEN QueryDecode(body).result
    ELSE estimate_eip1559_fees(DeBlockNativeGasResponse(body), category)

\* C1: a fetch that completes has not panicked, and on a response whose last
\* block has the tier of the category it returned Ok(price * 10^9 / 10)
C1_FetchReturnsPrice ==
    \A i \in CallIds :
        Done(i) /\ calls[i].op = "fetch" =>
            /\ calls[i].outcome.kind \in {"ok", "err"}
            /\ calls[i].body.kind = "quote" /\ calls[i].body.blockPrices # <<>>
               /\ HasTier(LastBlock(calls[i].body), gas_category)
               => calls[i].outcome =
                    Ok(BigDivSmall(
                        BigMul(NatToBig(TierOf(LastBlock(calls[i].body),
                                               gas_category).price),
                               NatToBig(GWEI_TO_WEI)), 10).q)

\* C2: a decoded response with an empty blockPrices array ends the call with
\* an error value, not a panic
C2_EmptyBlockPricesIsError ==
    \A i \in CallIds :
        Done(i) /\ calls[i].op \in {"estimate", "fetch"}
                /\ calls[i].body.kind = "quote"
                /\ calls[i].body.blockPrices = <<>>
            => calls[i].outcome.kind = "err"

\* C3: a decoded response whose last block has no tier at the percentile of
\* the configured category ends the call with an error value, not a panic
C3_MissingTierIsError ==
    \A i \in CallIds :
        Done(i) /\ calls[i].op = "estimate"
                /\ calls[i].body.kind = "quote"
                /\ calls[i].body.blockPrices # <<>>
                /\ calls[i].category \in GasCategory
                /\ ~HasTier(LastBlock(calls[i].body), calls[i].category)
            => calls[i].outcome.kind = "err"

\* C4: a successful estimate_eip1559_fees returns, in this order, the
\* converted maxFeePerGas and maxPriorityFeePerGas of the tier of the last
\* block at the category's percentile; both are U256 values (non-negative),
\* and the first is not the block's converted baseFeePerGas
C4_EstimateIsConvertedPair ==
    \A i \in CallIds :
        EstimateOk(i) =>
            LET b == LastBlock(calls[i].body)
                t == TierOf(b, calls[i].category)
                v == calls[i].outcome.value
            IN  /\ HasTier(b, calls[i].category)
                /\ v = FeesOf(t)
                /\ IsU256(v[1]) /\ IsU256(v[2])
                /\ WeiOf(b.baseFeePerGas) # WeiOf(t.maxFeePerGas)
                   => v[1] # WeiOf(b.baseFeePerGas)

C4_Witness ==
    \E i \in CallIds :
        /\ EstimateOk(i)
        /\ calls[i].outcome.value[1] # calls[i].outcome.value[2]
        /\ calls[i].outcome.value[1] #
              WeiOf(LastBlock(calls[i].body).baseFeePerGas)
        /\ calls[i].outcome.value[1] # <<>>

\* C5 as stated: with two or more blocks the outcome is that of the last
\* block alone, and it differs from the fees of the first block's matching
\* tier whenever the matching tiers of the first and last block differ
C5_DiffersWheneverTiersDiffer ==
    \A i \in CallIds :
        Done(i) /\ calls[i].op = "estimate" /\ calls[i].body.kind = "quote"
                /\ Len(calls[i].body.blockPrices) >= 2 =>
            LET first == calls[i].body.blockPrices[1]
                last  == LastBlock(calls[i].body)
                cat   == calls[i].category
            IN  /\ calls[i].outcome = OutcomeOf("estimate", cat, Quote(<<last>>))
                /\ calls[i].outcome.kind = "ok" /\ HasTier(first, cat)
                   /\ TierOf(first, cat) # TierOf(last, cat)
                   => calls[i].outcome.value # FeesOf(TierOf(first, cat))

\* C5 amended: with two or more blocks the outcome is that of the last block
\* alone, and it differs from the fees of the first block's matching tier
\* whenever the matching tiers of the first and last block convert to
\* different fees
C5_LastEntryOnly ==
    \A i \in CallIds :
        Done(i) /\ calls[i].op = "estimate" /\ calls[i].body.kind = "quote"
                /\ Len(calls[i].body.blockPrices) >= 2 =>
            LET first == calls[i].body.blockPrices[1]
                last  == LastBlock(calls[i].body)
                cat   == calls[i].category
            IN  /\ calls[i].outcome = OutcomeOf("estimate", cat, Quote(<<last>>))
                /\ calls[i].outcome.kind = "ok" /\ HasTier(first, cat)
                   /\ FeesOf(TierOf(first, cat)) # FeesOf(TierOf(last, cat))
                   => calls[i].outcome.value # FeesOf(TierOf(first, cat))

C5_Witness ==
    \E i \in CallIds :
        /\ EstimateOk(i)
        /\ Len(calls[i].body.blockPrices) >= 2
        /\ HasTier(calls[i].body.blockPrices[1], calls[i].category)
        /\ calls[i].outcome.value #
              FeesOf(TierOf(calls[i].body.blockPrices[1], calls[i].category))

\* C6: gas_category_to_confidence maps SafeLow to 80, Standard to 90, Fast
\* to 95 and Fastest to 99; on a last block with the tiers 80/90/95/99 the
\* estimate succeeds with the fees of the tier at that percentile
C6_CategoryPercentile ==
    /\ \A c \in GasCategory : gas_category_to_confidence(c) = Percentile[c]
    /\ \A i \in CallIds :
        Done(i) /\ calls[i].op = "estimate" /\ calls[i].body.kind = "quote"
                /\ calls[i].body.blockPrices # <<>>
                /\ (\A c \in GasCategory : HasTier(LastBlock(calls[i].body), c))
            => /\ calls[i].outcome.kind = "ok"
               /\ calls[i].outcome.value =
                    FeesOf(TierOf(LastBlock(calls[i].body), calls[i].category))

C6_Witness ==
    \E i \in CallIds :
        /\ EstimateOk(i)
        /\ calls[i].category = "Fast"
        /\ \A c \in GasCategory : HasTier(LastBlock(calls[i].body), c)
        /\ TierOf(LastBlock(calls[i].body), "Fast").confidence = 95
        /\ TierOf(LastBlock(calls[i].body), "Fast").price = 30
        /\ calls[i].outcome.value =
              FeesOf(TierOf(LastBlock(calls[i].body), "Fast"))

\* C7: a body that is not JSON or does not match the schema ends query and
\* estimate_eip1559_fees with SerdeJsonError of that cause, the body is in the
\* error log by then, and estimate_eip1559_fees has not come to read the
\* category or to select a tier
C7_DecodeErrorLoggedAndPropagated ==
    \A i \in CallIds :
        Done(i) /\ calls[i].body.kind \in {"not_json", "schema_mismatch"} =>
            /\ calls[i].outcome =
                 Err("SerdeJsonError",
                     IF calls[i].body.kind = "not_json" THEN "syntax"
                     ELSE "data")
            /\ Len(calls[i].logged) = 1
            /\ calls[i].logged[1].level = "error"
            /\ calls[i].logged[1].resp = calls[i].body
            /\ calls[i].logged[1].e = calls[i].outcome.value.cause
            /\ calls[i].category = "none"

C7_Witness ==
    \E i \in CallIds :
        /\ Done(i) /\ calls[i].op = "estimate"
        /\ calls[i].body = NoBlockPrices
        /\ calls[i].outcome.kind = "err"
        /\ calls[i].logged # <<>>

\* a step that is the arrival of the body of call i
Delivered(i) ==
    calls[i].pc = "text" /\ calls'[i].pc = "done" /\ calls'[i].body # NoBody

\* C8: in every step at most one call changes, the outcome of a call whose
\* body arrives is determined by its operation, the configured category and
\* that body, and no step of a call changes client, url or gas_category
C8_CallsDoNotInterfere ==
    [][/\ \A i, j \in CallIds :
            i # j /\ calls'[i] # calls[i] => calls'[j] = calls[j]
       /\ \A i \in CallIds :
            Delivered(i) =>
                calls'[i].outcome =
                    OutcomeOf(calls[i].op, gas_category, calls'[i].body)
       /\ calls' # calls =>
            client' = client /\ url' = url /\ gas_category' = gas_category
      ]_vars

C8_Witness ==
    \E i, j \in CallIds :
        /\ i # j /\ Done(i) /\ Done(j)
        /\ calls[i].op = "estimate" /\ calls[j].op = "estimate"
        /\ calls[i].outcome.kind = "ok" /\ calls[j].outcome.kind = "panic"

\* C9: for a two-decimal maxFeePerGas from 0.01 to 10000.00 the base fee
\* returned is exactly that value times 10^9, that is the cents times 10^7
C9_ExactWei ==
    \A i \in CallIds :
        EstimateOk(i) =>
            LET fee == TierOf(LastBlock(calls[i].body),
                              calls[i].category).maxFeePerGas
            IN  ~fee.neg /\ fee.scale = 2 /\ fee.digits \in 1..1000000
                => calls[i].outcome.value[1] =
                     BigMul(NatToBig(fee.digits), NatToBig(10000000))

====
